---- MODULE Spec2Model ----
(***************************************************************************)
(* Conversation-orchestration core of the Gemma3 examples repository.      *)
(*                                                                         *)
(*   SpecSync : the synchronous call path.  One caller drives one object   *)
(*              of GemmaAssistant (ai_assistant.py), GemmaClient           *)
(*              (gemma_web_app.py), GemmaAPI (gemma_api.py) or TopicExpert *)
(*              (topic_expert.py), one blocking call after the other.      *)
(*   Spec     : the asynchronous path of the two Flask applications        *)
(*              (gemma_web_app.py, web_interface.py): request handlers,    *)
(*              one worker thread per job, the shared response_queue and   *)
(*              the browser clients of the embedded script.js.             *)
(*                                                                         *)
(* The remote model (genai / gemma ChatSampler) is the environment: a call *)
(* to it either returns a reply or raises.                                 *)
(***************************************************************************)
EXTENDS Integers, Sequences, FiniteSets, TLC

(***************************************************************************)
(* Bounds of the model.                                                    *)
(***************************************************************************)
\* Longest document text explored.
MaxLen == 5
\* Stand-in for the chunk bound of summarize_document, which is 10000
\* characters (ai_assistant.py:95-96); the slicing is the code's, the size
\* is scaled so that multi-chunk texts are explored.
ChunkSize == 2
\* A synchronous caller starts a new operation only while fewer than this
\* many model calls have been made.
MaxCalls == 3
\* summarize_document is entered only while at most this many model calls
\* have been made.
MaxPrior == 0

\* POST requests the browsers make to a web application, all together:
\* submissions of text and image jobs, and conversation resets.
MaxPosts == 2

\* Characters of a document text: a letter and a blank.
Chars == {"a", " "}

\* No decoded image (None).
NoImage == "none"
\* Python's None where a string is expected.
None == <<"None">>

(***************************************************************************)
(* Strings are sequences of characters.                                    *)
(***************************************************************************)
RECURSIVE SeqsUpTo(_, _)
SeqsUpTo(S, n) ==
    IF n = 0 THEN {<<>>}
    ELSE LET shorter == SeqsUpTo(S, n - 1)
         IN  shorter \cup {Append(s, c) : s \in {t \in shorter : Len(t) = n - 1}, c \in S}

Texts == SeqsUpTo(Chars, MaxLen)

RECURSIVE Concat(_)
Concat(ss) == IF ss = <<>> THEN <<>> ELSE Head(ss) \o Concat(Tail(ss))

\* Python's s[i:j] on 0-based offsets, clipped to the length of s.
Slice(s, i, j) ==
    LET hi == IF j > Len(s) THEN Len(s) ELSE j
    IN  IF i >= hi THEN <<>> ELSE SubSeq(s, i + 1, hi)

\* Python's range(0, n, step) as a sequence.
RangeStep(n, step) == [k \in 1..((n + step - 1) \div step) |-> (k - 1) * step]

Join_nosep(sep, parts) == Concat(parts)

\* Python's sep.join(parts).
RECURSIVE Join(_, _)
Join(sep, parts) ==
    IF parts = <<>> THEN <<>>
    ELSE IF Len(parts) = 1 THEN parts[1]
    ELSE parts[1] \o sep \o Join(sep, Tail(parts))

(***************************************************************************)
(* State.                                                                  *)
(***************************************************************************)
VARIABLES
    obj,          \* which program / class is running
    vision,       \* use_multimodal / use_vision / "vision" in model_name
    history,      \* the chat session's turns, oldest first
    calls,        \* every invocation of the model so far, oldest first
    ret,          \* what the last finished operation returned
    s_pc,         \* position inside summarize_document
    s_text,       \* summarize_document: text
    s_chunks,     \* summarize_document: chunks
    s_summaries,  \* summarize_document: summaries
    s_base,       \* Len(calls) when summarize_document was entered
    \* the web applications
    init_pc,        \* the thread of initialize_clients / load_models
    cur,            \* the chat session each client object holds (0: no client)
    sess,           \* every chat session created so far: its turns
    jobs,           \* the worker threads started so far, in start order
    response_queue, \* the shared queue.Queue of results
    published,      \* the jobs that put an entry, in order of the puts
    delivered,      \* the entries handed out by /api/status, in order
    cid,            \* script.js: currentConversationId of each browser
    isProcessing,   \* script.js: isProcessing
    polling,        \* script.js: statusCheckInterval is running
    submit,         \* the POST /api/text or /api/image of each browser
    lastReset       \* the latest answer of POST /api/reset

syncVars == <<vision, history, ret, s_pc, s_text, s_chunks, s_summaries, s_base>>
webVars == <<init_pc, cur, sess, jobs, response_queue, published, delivered,
             cid, isProcessing, polling, submit, lastReset>>
vars == <<obj, calls, syncVars, webVars>>

(***************************************************************************)
(* The model as seen by the callers.                                       *)
(***************************************************************************)
\* The reply of the k-th model call.  Replies are opaque to the program;
\* giving each call its own reply keeps them apart in histories.
Reply(k) == <<"r" \o ToString(k)>>

UserTurn(content, image) == [role |-> "user", content |-> content, image |-> image]
ModelTurn(text) == [role |-> "model", content |-> text, image |-> NoImage]

\* chat_sampler.send_message / chat_session.send_message: a multi-turn call.
\* The model sees the turns so far; on success the user turn and the reply
\* are appended to the session.
ChatCall(content, image) ==
    [kind |-> "chat", content |-> content, image |-> image, context |-> history]

\* model.generate_content: a single-shot call outside any session.
GenerateCall(content, image) ==
    [kind |-> "generate", content |-> content, image |-> image, context |-> <<>>]

NextReply == Reply(Len(calls) + 1)

SendOk_rewrite(content, image) ==
    /\ calls' = Append(calls, ChatCall(content, image))
    /\ history' = <<UserTurn(content, image), ModelTurn(NextReply)>> \o history

SendOk(content, image) ==
    /\ calls' = Append(calls, ChatCall(content, image))
    /\ history' = history \o <<UserTurn(content, image), ModelTurn(NextReply)>>

SendRaises(content, image) ==
    /\ calls' = Append(calls, ChatCall(content, image))
    /\ history' = history

(***************************************************************************)
(* GemmaAssistant (ai_assistant.py).                                       *)
(***************************************************************************)
CapabilityMsg == <<"Error: This assistant is not initialized with multimodal capabilities.">>
NoTextMsg == <<"Error: Could not extract text from the document.">>
UnsupportedMsg == <<"Unsupported file format">>
ExtractErrorMsg == <<"Error extracting text">>

Exts == {".txt", ".xyz"}
Files ==
    {[ext |-> ".txt", readable |-> TRUE, content |-> t] : t \in Texts}
    \cup {[ext |-> e, readable |-> FALSE, content |-> <<>>] : e \in Exts}

\* extract_text_from_document: dispatch on the extension; every exception of
\* an extractor is turned into a message.
extract_text_from_document(file) ==
    IF file.ext # ".txt" THEN UnsupportedMsg
    ELSE IF ~file.readable THEN ExtractErrorMsg
    ELSE file.content

ChunksOf_short(text) ==
    LET starts == RangeStep(Len(text), ChunkSize)
    IN  [k \in 1..Len(starts) |-> Slice(text, starts[k], starts[k] + ChunkSize - 1)]

\* chunks = [text[i:i+10000] for i in range(0, len(text), 10000)]
ChunksOf(text) ==
    LET starts == RangeStep(Len(text), ChunkSize)
    IN  [k \in 1..Len(starts) |-> Slice(text, starts[k], starts[k] + ChunkSize)]

\* full_prompt = f"{prompt}\n\n{text}"
FullPrompt(prompt, text) == [prompt |-> prompt, text |-> text]

PartPrompt(i, n) == [kind |-> "part", i |-> i, n |-> n]
CombinePrompt == [kind |-> "combine", i |-> 0, n |-> 0]
WholePrompt == [kind |-> "whole", i |-> 0, n |-> 0]

\* What an operation handed back: how it ended (it returned a value, it
\* raised, or it is still running), the value, whether the call carried an
\* image, and how many model calls had been made when it began.
Outcome(op, outcome, value, image, base) ==
    [op |-> op, outcome |-> outcome, value |-> value, image |-> image, base |-> base]
Returned(op, value, image, base) == Outcome(op, "returned", value, image, base)
Raised(op, image, base) == Outcome(op, "raised", None, image, base)
Running(op, image, base) == Outcome(op, "running", None, image, base)

\* if len(text) > 10000
NeedsChunking_ge(text) == Len(text) >= ChunkSize
NeedsChunking(text) == Len(text) > ChunkSize

sumVars == <<s_text, s_chunks, s_summaries, s_base>>

\* The caller is between two operations and may start another one.
Idle(class) == obj = class /\ s_pc = "idle" /\ Len(calls) < MaxCalls

\* summarize_document, lines 90-97: extract, test for emptiness, split.
SummarizeStart(file) ==
    /\ Idle("GemmaAssistant")
    /\ Len(calls) <= MaxPrior
    /\ LET text == extract_text_from_document(file)
       IN  /\ s_text' = text
           /\ s_base' = Len(calls)
           /\ s_summaries' = <<>>
           /\ IF text = <<>>
              THEN /\ s_pc' = "idle"
                   /\ s_chunks' = <<>>
                   /\ ret' = Returned("summarize", NoTextMsg, FALSE, Len(calls))
              ELSE IF NeedsChunking(text)
              THEN /\ s_pc' = "chunks"
                   /\ s_chunks' = ChunksOf(text)
                   /\ ret' = Running("summarize", FALSE, Len(calls))
              ELSE /\ s_pc' = "whole"
                   /\ s_chunks' = <<>>
                   /\ ret' = Running("summarize", FALSE, Len(calls))
    /\ UNCHANGED <<webVars, obj, vision, history, calls>>

\* One pass of the loop of lines 99-103: process_text on the next chunk.
SummarizeChunk(ok) ==
    /\ obj = "GemmaAssistant" /\ s_pc = "chunks"
    /\ Len(s_summaries) < Len(s_chunks)
    /\ LET i == Len(s_summaries) + 1
           content == FullPrompt(PartPrompt(i, Len(s_chunks)), s_chunks[i])
       IN  IF ok
           THEN /\ SendOk(content, NoImage)
                /\ s_summaries' = Append(s_summaries, NextReply)
                /\ s_pc' = IF i = Len(s_chunks) THEN "combine" ELSE "chunks"
                /\ UNCHANGED ret
           ELSE /\ SendRaises(content, NoImage)
                /\ s_pc' = "raised"
                /\ ret' = Raised("summarize", FALSE, s_base)
                /\ UNCHANGED s_summaries
    /\ UNCHANGED <<webVars, obj, vision, s_text, s_chunks, s_base>>

\* Lines 106-111: the combine call over the joined summaries.
SummarizeCombine(ok) ==
    /\ obj = "GemmaAssistant" /\ s_pc = "combine"
    /\ LET content == FullPrompt(CombinePrompt, Join(<<"\n", "\n">>, s_summaries))
       IN  IF ok
           THEN /\ SendOk(content, NoImage)
                /\ s_pc' = "idle"
                /\ ret' = Returned("summarize", NextReply, FALSE, s_base)
           ELSE /\ SendRaises(content, NoImage)
                /\ s_pc' = "raised"
                /\ ret' = Raised("summarize", FALSE, s_base)
    /\ UNCHANGED <<webVars, obj, vision, s_text, s_chunks, s_summaries, s_base>>

\* Line 113: a text within the bound is summarized by one call.
SummarizeWhole(ok) ==
    /\ obj = "GemmaAssistant" /\ s_pc = "whole"
    /\ LET content == FullPrompt(WholePrompt, s_text)
       IN  IF ok
           THEN /\ SendOk(content, NoImage)
                /\ s_pc' = "idle"
                /\ ret' = Returned("summarize", NextReply, FALSE, s_base)
           ELSE /\ SendRaises(content, NoImage)
                /\ s_pc' = "raised"
                /\ ret' = Raised("summarize", FALSE, s_base)
    /\ UNCHANGED <<webVars, obj, vision, s_text, s_chunks, s_summaries, s_base>>

\* chat, lines 76-86.  An exception of the sampler is not caught.
AssistantChat(message, image, ok) ==
    /\ Idle("GemmaAssistant")
    /\ IF image # NoImage /\ ~vision
       THEN /\ ret' = Returned("chat", CapabilityMsg, TRUE, Len(calls))
            /\ UNCHANGED <<history, calls, s_pc>>
       ELSE IF ok
       THEN /\ SendOk(message, image)
            /\ ret' = Returned("chat", NextReply, image # NoImage, Len(calls))
            /\ UNCHANGED s_pc
       ELSE /\ SendRaises(message, image)
            /\ ret' = Raised("chat", image # NoImage, Len(calls))
            /\ s_pc' = "raised"
    /\ UNCHANGED <<webVars, obj, vision, sumVars>>

DefaultImagePrompt == <<"Please analyze this image and describe what you see:">>

\* process_image, lines 65-74, with the default prompt.
AssistantProcessImage(image, ok) ==
    /\ Idle("GemmaAssistant")
    /\ IF ~vision
       THEN /\ ret' = Returned("process_image", CapabilityMsg, TRUE, Len(calls))
            /\ UNCHANGED <<history, calls, s_pc>>
       ELSE IF ok
       THEN /\ SendOk(DefaultImagePrompt, image)
            /\ ret' = Returned("process_image", NextReply, TRUE, Len(calls))
            /\ UNCHANGED s_pc
       ELSE /\ SendRaises(DefaultImagePrompt, image)
            /\ ret' = Raised("process_image", TRUE, Len(calls))
            /\ s_pc' = "raised"
    /\ UNCHANGED <<webVars, obj, vision, sumVars>>

\* reset_conversation, lines 51-54: chat_sampler.reset().
AssistantReset ==
    /\ Idle("GemmaAssistant")
    /\ history' = <<>>
    /\ ret' = Returned("reset", None, FALSE, Len(calls))
    /\ UNCHANGED <<webVars, obj, vision, calls, s_pc, sumVars>>

(***************************************************************************)
(* Image payloads.  A payload string is the sequence of its comma-separated *)
(* segments, so that s.split(',') is the payload itself.                   *)
(***************************************************************************)
Header == "data:image/png;base64"
\* No image_data argument (None).
NoPayload == <<>>
\* The empty string.
EmptyPayload == <<"">>
\* Segments: GOOD is the base64 text of a readable image, NOTIMG the base64
\* text of bytes that are no image, BAD is not base64 at all.
Payloads ==
    {<<"GOOD">>, <<Header, "GOOD">>, <<"BAD">>, <<Header, "BAD">>, <<"NOTIMG">>, <<Header>>}

\* Python truthiness of an optional string.
Truthy(payload) == payload # NoPayload /\ payload # EmptyPayload

\* image_data.startswith('data:image')
StartsWithDataImage(payload) == Len(payload) >= 1 /\ payload[1] = Header

\* Image.open(io.BytesIO(base64.b64decode(text))): the image, or "raise".
OpenBase64(text) == IF text = "GOOD" THEN "IMG" ELSE "raise"

\* s.split(',')[1], or "raise" (IndexError) when s holds no comma.
SplitSecond(payload) == IF Len(payload) >= 2 THEN payload[2] ELSE "raise"

\* The whole payload string handed to b64decode: a comma is no base64.
WholeString(payload) == IF Len(payload) = 1 THEN payload[1] ELSE "BAD"

\* GemmaClient.send_message, lines 99-103: strip a data-URI header if there
\* is one, then decode.
ClientDecode(payload) ==
    IF StartsWithDataImage(payload)
    THEN (IF SplitSecond(payload) = "raise" THEN "raise" ELSE OpenBase64(SplitSecond(payload)))
    ELSE OpenBase64(WholeString(payload))

\* self.model.start_chat(history=[])
StartChat_keep(hist) == hist
StartChat(hist) == <<>>

(***************************************************************************)
(* GemmaClient (gemma_web_app.py), called directly.                        *)
(***************************************************************************)
ClientErrorMsg == <<"Error: ", "exception text">>

GenerateOk(content, image) ==
    /\ calls' = Append(calls, GenerateCall(content, image))
    /\ history' = history

\* The branch of send_message, line 97: image_data and self.use_vision.
TakesImageBranch(payload, use_vision) == Truthy(payload) /\ use_vision

\* send_message, lines 96-113: every exception becomes an "Error: ..." string.
ClientSend(message, payload, ok) ==
    /\ Idle("GemmaClient")
    /\ IF TakesImageBranch(payload, vision)
       THEN IF ClientDecode(payload) = "raise"
            THEN /\ ret' = Returned("send_message", ClientErrorMsg, TRUE, Len(calls))
                 /\ UNCHANGED <<history, calls>>
            ELSE /\ GenerateOk(message, ClientDecode(payload))
                 /\ ret' = Returned("send_message",
                                    IF ok THEN NextReply ELSE ClientErrorMsg, TRUE, Len(calls))
       ELSE /\ IF ok THEN SendOk(message, NoImage) ELSE SendRaises(message, NoImage)
            /\ ret' = Returned("send_message",
                               IF ok THEN NextReply ELSE ClientErrorMsg,
                               Truthy(payload), Len(calls))
    /\ UNCHANGED <<webVars, obj, vision, s_pc, sumVars>>

\* reset, lines 137-139: a fresh chat session.
ClientReset ==
    /\ Idle("GemmaClient")
    /\ history' = StartChat(history)
    /\ ret' = Returned("reset", None, FALSE, Len(calls))
    /\ UNCHANGED <<webVars, obj, vision, calls, s_pc, sumVars>>

(***************************************************************************)
(* GemmaAPI (gemma_api.py).                                                *)
(***************************************************************************)
ApiVisionMsg == <<"Error: You need to use a vision model (e.g., 'gemma-3-vision-it') for image processing.">>
ApiChatError == <<"Error in chat: ", "exception text">>
ApiImageError == <<"Error processing image: ", "exception text">>
ApiBase64Error == <<"Error processing base64 image: ", "exception text">>

\* chat, lines 106-110.
ApiChat(message, ok) ==
    /\ Idle("GemmaAPI")
    /\ IF ok THEN SendOk(message, NoImage) ELSE SendRaises(message, NoImage)
    /\ ret' = Returned("chat", IF ok THEN NextReply ELSE ApiChatError, FALSE, Len(calls))
    /\ UNCHANGED <<webVars, obj, vision, s_pc, sumVars>>

\* reset_chat, lines 112-114.
ApiResetChat ==
    /\ Idle("GemmaAPI")
    /\ history' = StartChat(history)
    /\ ret' = Returned("reset", None, FALSE, Len(calls))
    /\ UNCHANGED <<webVars, obj, vision, calls, s_pc, sumVars>>

\* "vision" not in self.model_name
ApiRejects(use_vision) == ~use_vision

\* process_image, lines 132-143; readable: whether Image.open(image_path)
\* succeeds.
ApiProcessImage(readable, prompt, ok) ==
    /\ Idle("GemmaAPI")
    /\ IF ApiRejects(vision)
       THEN /\ ret' = Returned("process_image", ApiVisionMsg, TRUE, Len(calls))
            /\ UNCHANGED <<history, calls>>
       ELSE IF ~readable
       THEN /\ ret' = Returned("process_image", ApiImageError, TRUE, Len(calls))
            /\ UNCHANGED <<history, calls>>
       ELSE /\ GenerateOk(prompt, "IMG")
            /\ ret' = Returned("process_image",
                               IF ok THEN NextReply ELSE ApiImageError, TRUE, Len(calls))
    /\ UNCHANGED <<webVars, obj, vision, s_pc, sumVars>>

\* process_image_base64, lines 166-178: the string is decoded as it is.
ApiProcessImageBase64(payload, prompt, ok) ==
    /\ Idle("GemmaAPI")
    /\ IF ApiRejects(vision)
       THEN /\ ret' = Returned("process_image_base64", ApiVisionMsg, TRUE, Len(calls))
            /\ UNCHANGED <<history, calls>>
       ELSE IF OpenBase64(WholeString(payload)) = "raise"
       THEN /\ ret' = Returned("process_image_base64", ApiBase64Error, TRUE, Len(calls))
            /\ UNCHANGED <<history, calls>>
       ELSE /\ GenerateOk(prompt, OpenBase64(WholeString(payload)))
            /\ ret' = Returned("process_image_base64",
                               IF ok THEN NextReply ELSE ApiBase64Error, TRUE, Len(calls))
    /\ UNCHANGED <<webVars, obj, vision, s_pc, sumVars>>

(***************************************************************************)
(* TopicExpert (topic_expert.py).                                          *)
(***************************************************************************)
\* The message _send_system_prompt sends (lines 68-70).
RoleMessage == <<"I want you to act as an expert on ", "topic">>
ExpertError == <<"Error: ", "exception text">>

\* The priming text __init__ and reset build (lines 56-59 and 93-95): the
\* topic, and the context when one was given.
SystemPrompt == <<"You are an expert on ", "topic", " Here's some specialized knowledge you have: ", "context">>

\* _send_system_prompt, lines 65-72: the message sent is built from
\* self.topic, the system_prompt argument is not read; the reply is dropped,
\* an exception is printed and swallowed.
SendSystemPrompt_halfsent(system_prompt, hist, ok) ==
    IF ok
    THEN hist \o <<UserTurn(RoleMessage, NoImage), ModelTurn(NextReply)>>
    ELSE hist \o <<UserTurn(RoleMessage, NoImage)>>
SendSystemPrompt(system_prompt, hist, ok) ==
    IF ok
    THEN hist \o <<UserTurn(RoleMessage, NoImage), ModelTurn(NextReply)>>
    ELSE hist

\* __init__, lines 49-63.
ExpertInit(ok) ==
    /\ obj = "TopicExpert" /\ s_pc = "constructing"
    /\ history' = SendSystemPrompt(SystemPrompt, StartChat(history), ok)
    /\ calls' = Append(calls, ChatCall(RoleMessage, NoImage))
    /\ ret' = Returned("create", None, FALSE, Len(calls))
    /\ s_pc' = "idle"
    /\ UNCHANGED <<webVars, obj, vision, sumVars>>

\* ask, lines 84-88.
ExpertAsk(question, ok) ==
    /\ Idle("TopicExpert")
    /\ IF ok THEN SendOk(question, NoImage) ELSE SendRaises(question, NoImage)
    /\ ret' = Returned("ask", IF ok THEN NextReply ELSE ExpertError, FALSE, Len(calls))
    /\ UNCHANGED <<webVars, obj, vision, s_pc, sumVars>>

\* reset, lines 92-96.
ExpertReset(ok) ==
    /\ Idle("TopicExpert")
    /\ history' = SendSystemPrompt(SystemPrompt, StartChat(history), ok)
    /\ calls' = Append(calls, [ChatCall(RoleMessage, NoImage) EXCEPT !.context = StartChat(history)])
    /\ ret' = Returned("reset", None, FALSE, Len(calls))
    /\ UNCHANGED <<webVars, obj, vision, s_pc, sumVars>>

(***************************************************************************)
(* The web applications: state after the module is loaded and main() has   *)
(* started the initializer thread.                                         *)
(***************************************************************************)
Clients == {"A", "B"}
Types == {"text", "image"}

NoEntry == [conversation_id |-> [client |-> "-", n |-> 0], response |-> None,
            error |-> None, job |-> 0]
NoSubmit == [st |-> "none", job |-> 0]
NoReset == "-"

WebInit ==
    /\ init_pc = "start"
    /\ cur = [t \in Types |-> 0]
    /\ sess = <<>>
    /\ jobs = <<>>
    /\ response_queue = <<>>
    /\ published = <<>>
    /\ delivered = <<>>
    /\ cid = [c \in Clients |-> [client |-> c, n |-> 0]]
    /\ isProcessing = [c \in Clients |-> FALSE]
    /\ polling = [c \in Clients |-> FALSE]
    /\ submit = [c \in Clients |-> NoSubmit]
    /\ lastReset = NoReset

(***************************************************************************)
(* The synchronous call path.                                              *)
(***************************************************************************)
Classes == {"GemmaAssistant", "GemmaClient", "GemmaAPI", "TopicExpert"}
Msgs == {<<"q1">>}

InitSync ==
    /\ obj \in Classes
    /\ vision \in BOOLEAN
    /\ history = <<>>
    /\ calls = <<>>
    /\ ret = Returned("init", None, FALSE, 0)
    /\ s_pc = IF obj = "TopicExpert" THEN "constructing" ELSE "idle"
    /\ s_text = <<>>
    /\ s_chunks = <<>>
    /\ s_summaries = <<>>
    /\ s_base = 0
    /\ WebInit

NextSync ==
    \/ \E file \in Files : SummarizeStart(file)
    \/ \E ok \in BOOLEAN : SummarizeChunk(ok)
    \/ \E ok \in BOOLEAN : SummarizeCombine(ok)
    \/ \E ok \in BOOLEAN : SummarizeWhole(ok)
    \/ \E m \in Msgs, image \in {NoImage, "IMG"}, ok \in BOOLEAN : AssistantChat(m, image, ok)
    \/ \E ok \in BOOLEAN : AssistantProcessImage("IMG", ok)
    \/ AssistantReset
    \/ \E m \in Msgs, p \in Payloads \cup {NoPayload, EmptyPayload}, ok \in BOOLEAN :
           ClientSend(m, p, ok)
    \/ ClientReset
    \/ \E m \in Msgs, ok \in BOOLEAN : ApiChat(m, ok)
    \/ ApiResetChat
    \/ \E readable \in BOOLEAN, m \in Msgs, ok \in BOOLEAN : ApiProcessImage(readable, m, ok)
    \/ \E p \in Payloads, m \in Msgs, ok \in BOOLEAN : ApiProcessImageBase64(p, m, ok)
    \/ \E ok \in BOOLEAN : ExpertInit(ok)
    \/ \E m \in Msgs, ok \in BOOLEAN : ExpertAsk(m, ok)
    \/ \E ok \in BOOLEAN : ExpertReset(ok)

SpecSync == InitSync /\ [][NextSync]_vars

(***************************************************************************)
(* The web applications (gemma_web_app.py, web_interface.py).              *)
(***************************************************************************)
Apps == {"gemma_web_app", "web_interface"}

ExceptionText == <<"exception text">>
NotInitializedError == <<"Client not initialized">>
NotInitializedMsg == <<"Error: Gemma client not initialized. Please check your API key.">>

\* One of the two applications is running; the state of the synchronous
\* path is not in use.
WebApp == obj \in Apps /\ UNCHANGED <<obj, calls, syncVars>>

Entry(conv, response, error, j) ==
    [conversation_id |-> conv, response |-> response, error |-> error, job |-> j]

\* The prompt of the j-th job; prompts are opaque to the server.
Prompt(j) == <<"p" \o ToString(j)>>

serverVars == <<init_pc, cur, sess, jobs, response_queue, published, delivered>>
browserVars == <<cid, isProcessing, polling, submit>>

\* How far the initialisation thread gets: initialize_clients
\* (gemma_web_app.py:150-167) and load_models (web_interface.py:38-71) assign
\* the text client first and the vision client second; without an API key,
\* or when a constructor raises, the thread ends and what is not yet
\* assigned stays None.
InitOutcomes == {<<>>, <<"text">>, <<"text", "image">>}

initialize_clients(assigned) ==
    /\ WebApp
    /\ init_pc = "start"
    /\ init_pc' = "ended"
    /\ sess' = sess \o [k \in 1..Len(assigned) |-> <<>>]
    /\ cur' = [t \in Types |->
                 IF \E k \in 1..Len(assigned) : assigned[k] = t
                 THEN Len(sess) + (CHOOSE k \in 1..Len(assigned) : assigned[k] = t)
                 ELSE cur[t]]
    /\ UNCHANGED <<jobs, response_queue, published, delivered, browserVars,
                   lastReset>>

----
\* The POST requests the browsers have made so far: submissions and resets.
ResetsIssued == cid["A"].n + cid["B"].n
Posts == Len(jobs) + ResetsIssued

NewJob(kind, conv, payload) ==
    [kind |-> kind, conversation_id |-> conv, payload |-> payload,
     pc |-> "spawned", sid |-> 0, ctx |-> <<>>, image |-> NoImage,
     called |-> FALSE, outcome |-> "-"]

\* script.js, sendTextMessage / sendImageMessage (guarded by isProcessing),
\* and the handler text_query / image_query up to
\* threading.Thread(...).start().
query(c, kind, payload) ==
    /\ WebApp
    /\ ~isProcessing[c]
    /\ Posts < MaxPosts
    /\ isProcessing' = [isProcessing EXCEPT ![c] = TRUE]
    /\ jobs' = Append(jobs, NewJob(kind, cid[c], payload))
    /\ submit' = [submit EXCEPT ![c] = [st |-> "spawned", job |-> Len(jobs) + 1]]
    /\ UNCHANGED <<init_pc, cur, sess, response_queue, published, delivered,
                   cid, polling, lastReset>>

\* What the handler waits for before it returns: nothing.
MayReturn_joined(j) == jobs[j].pc = "done"
MayReturn(j) == TRUE

\* return jsonify({"status": "processing", "conversation_id": conversation_id}),
\* and script.js: .then(data => { if (data.status === 'processing') startStatusCheck(); })
query_return(c) ==
    /\ WebApp
    /\ submit[c].st = "spawned"
    /\ MayReturn(submit[c].job)
    /\ polling' = [polling EXCEPT ![c] = TRUE]
    /\ submit' = [submit EXCEPT ![c].st = "none"]
    /\ UNCHANGED <<serverVars, cid, isProcessing, lastReset>>

\* script.js: .catch(error => { isProcessing = false; ... }): the response
\* of the POST was lost.
submitCatch(c) ==
    /\ WebApp
    /\ submit[c].st = "spawned"
    /\ isProcessing' = [isProcessing EXCEPT ![c] = FALSE]
    /\ submit' = [submit EXCEPT ![c].st = "none"]
    /\ UNCHANGED <<serverVars, cid, polling, lastReset>>

----
\* What a worker puts when its client object is None.  gemma_web_app tests
\* for it, puts one entry and returns; in web_interface the call on None
\* raises AttributeError, which the except clause turns into an entry.
NotInitializedEntries_fallthrough(app, conv, j) ==
    IF app = "gemma_web_app"
    THEN <<Entry(conv, NotInitializedMsg, NotInitializedError, j),
           Entry(conv, None, ExceptionText, j)>>
    ELSE <<Entry(conv, None, ExceptionText, j)>>
NotInitializedEntries_silent(app, conv, j) == <<>>
NotInitializedEntries(app, conv, j) ==
    IF app = "gemma_web_app"
    THEN <<Entry(conv, NotInitializedMsg, NotInitializedError, j)>>
    ELSE <<Entry(conv, None, ExceptionText, j)>>

\* What a worker puts when decoding the image or calling the model raised.
\* GemmaClient.send_message returns "Error: ..." which is put as a response;
\* web_interface puts the exception text as the error.
FailureEntries_uncaught(app, conv, j) == <<>>
FailureEntries(app, conv, j) ==
    IF app = "gemma_web_app"
    THEN <<Entry(conv, ClientErrorMsg, None, j)>>
    ELSE <<Entry(conv, None, ExceptionText, j)>>

SuccessEntries_default(conv, j) == <<Entry(NoEntry.conversation_id, Reply(j), None, j)>>
SuccessEntries(conv, j) == <<Entry(conv, Reply(j), None, j)>>

\* response_queue.put of each entry, in order.
Put_dropped(entries, j) == UNCHANGED <<response_queue, published>>
Put(entries, j) ==
    /\ response_queue' = response_queue \o entries
    /\ published' = published \o [k \in 1..Len(entries) |-> j]

\* The image a worker hands to the model, "none" when the call is text-only,
\* "raise" when decoding fails.  gemma_web_app.py:97-103; web_interface.py:85-86.
WorkerImage_lenient(app, kind, payload) ==
    IF kind = "text" THEN NoImage ELSE "IMG"
WorkerImage(app, kind, payload) ==
    IF kind = "text" THEN NoImage
    ELSE IF app = "gemma_web_app"
    THEN (IF TakesImageBranch(payload, TRUE) THEN ClientDecode(payload) ELSE NoImage)
    ELSE (IF SplitSecond(payload) = "raise" THEN "raise" ELSE OpenBase64(SplitSecond(payload)))

\* The session a call runs in: 0 for generate_content, which has none.
\* gemma_web_app sends an image job through model.generate_content.
WorkerSession(app, kind, image) ==
    IF app = "gemma_web_app" /\ image # NoImage THEN 0 ELSE cur[kind]

\* A worker that has put its entry: the thread ends and its arguments and
\* locals with it.
Finished(job, outcome) ==
    [job EXCEPT !.pc = "done", !.outcome = outcome, !.payload = NoPayload,
                !.ctx = <<>>, !.image = NoImage]

\* process_text_query / process_image_query up to the call of the model.
WorkerStart(j) ==
    /\ WebApp
    /\ j \in 1..Len(jobs)
    /\ jobs[j].pc = "spawned"
    /\ LET job == jobs[j]
           image == WorkerImage(obj, job.kind, job.payload)
           finished(outcome) == [jobs EXCEPT ![j] = Finished(job, outcome)]
       IN  IF obj = "gemma_web_app" /\ cur[job.kind] = 0
           THEN /\ Put(NotInitializedEntries(obj, job.conversation_id, j), j)
                /\ jobs' = finished("failed")
           ELSE IF image = "raise"
           THEN /\ Put(FailureEntries(obj, job.conversation_id, j), j)
                /\ jobs' = finished("failed")
           ELSE IF cur[job.kind] = 0
           THEN /\ Put(NotInitializedEntries(obj, job.conversation_id, j), j)
                /\ jobs' = finished("failed")
           ELSE LET sid == WorkerSession(obj, job.kind, image)
                IN  /\ jobs' = [jobs EXCEPT ![j].pc = "calling", ![j].called = TRUE,
                                            ![j].sid = sid, ![j].image = image,
                                            ![j].ctx = IF sid = 0 THEN <<>> ELSE sess[sid]]
                    /\ UNCHANGED <<response_queue, published>>
    /\ UNCHANGED <<init_pc, cur, sess, delivered, browserVars, lastReset>>

\* The turns a session holds after a call on it returned.  The session is
\* shared by the workers without a lock: a call that ran beside another one
\* extends either what the session holds now or what it held when the call
\* began.
SessionAfter(job, j, base) ==
    base \o <<UserTurn(Prompt(j), job.image), ModelTurn(Reply(j))>>

\* The call of the model returns or raises, and the worker puts its entry.
WorkerFinish(j, ok) ==
    /\ WebApp
    /\ j \in 1..Len(jobs)
    /\ jobs[j].pc = "calling"
    /\ LET job == jobs[j]
       IN  IF ok
           THEN /\ Put(SuccessEntries(job.conversation_id, j), j)
                /\ jobs' = [jobs EXCEPT ![j] = Finished(job, "ready")]
                /\ IF job.sid = 0
                   THEN sess' = sess
                   ELSE \E base \in {sess[job.sid], job.ctx} :
                            sess' = [sess EXCEPT ![job.sid] = SessionAfter(job, j, base)]
           ELSE /\ Put(FailureEntries(obj, job.conversation_id, j), j)
                /\ jobs' = [jobs EXCEPT ![j] = Finished(job, "failed")]
                /\ sess' = sess
    /\ UNCHANGED <<init_pc, cur, delivered, browserVars, lastReset>>

----
\* The entry a poll takes and what it leaves in the queue:
\* response_queue.get_nowait().
Taken_peek(q, c) == [entry |-> Head(q), rest |-> q]
Taken_newest(q, c) == [entry |-> q[Len(q)], rest |-> SubSeq(q, 1, Len(q) - 1)]
Taken(q, c) == [entry |-> Head(q), rest |-> Tail(q)]

\* Whether a poll of browser c finds something to take: the queue is not
\* empty (queue.Empty is raised otherwise).
Finds_matching(q, c) == q # <<>> /\ Head(q).conversation_id = cid[c]
Finds(q, c) == q # <<>>

\* A delivery: the entry a poll answered with {"status": "ready"}, the
\* browser that polled and the conversation id that browser holds.
Delivery(c, entry) == [entry |-> entry, to |-> c, expected |-> cid[c]]

\* script.js: the interval fires checkResponseStatus; the handler
\* check_status (gemma_web_app.py:265-278, web_interface.py:142-155)
\* answers; the .then callback acts on the answer.  On 'ready' the browser
\* stops the interval and clears isProcessing; on 'processing' (queue.Empty)
\* nothing changes and the interval goes on.
check_status(c) ==
    /\ WebApp
    /\ polling[c]
    /\ IF Finds(response_queue, c)
       THEN /\ response_queue' = Taken(response_queue, c).rest
            /\ delivered' = Append(delivered, Delivery(c, Taken(response_queue, c).entry))
            /\ polling' = [polling EXCEPT ![c] = FALSE]
            /\ isProcessing' = [isProcessing EXCEPT ![c] = FALSE]
       ELSE UNCHANGED <<response_queue, delivered, polling, isProcessing>>
    /\ UNCHANGED <<init_pc, cur, sess, jobs, published, cid, submit, lastReset>>

----

\* script.js, resetConversation(type): a new conversation id, then the POST
\* handled by reset_conversation.  gemma_web_app.py:252-263 gives an existing
\* client a new chat session; web_interface.py:129-140 resets the sampler in
\* place and fails on a sampler that is still None.
reset_conversation_purging(c, type) ==
    /\ WebApp
    /\ Posts < MaxPosts
    /\ cid' = [cid EXCEPT ![c].n = @ + 1]
    /\ lastReset' = "reset"
    /\ response_queue' = <<>>
    /\ jobs' = [j \in 1..Len(jobs) |-> Finished(jobs[j], "failed")]
    /\ UNCHANGED <<init_pc, cur, sess, published, delivered,
                   isProcessing, polling, submit>>

reset_conversation(c, type) ==
    /\ WebApp
    /\ Posts < MaxPosts
    /\ cid' = [cid EXCEPT ![c].n = @ + 1]
    /\ IF cur[type] = 0
       THEN /\ lastReset' = IF obj = "gemma_web_app" THEN "reset" ELSE "error"
            /\ UNCHANGED <<cur, sess>>
       ELSE /\ lastReset' = "reset"
            /\ IF obj = "gemma_web_app"
               THEN /\ sess' = Append(sess, StartChat(sess[cur[type]]))
                    /\ cur' = [cur EXCEPT ![type] = Len(sess) + 1]
               ELSE /\ sess' = [sess EXCEPT ![cur[type]] = <<>>]
                    /\ cur' = cur
    /\ UNCHANGED <<init_pc, jobs, response_queue, published, delivered,
                   isProcessing, polling, submit>>

----
\* The payloads a browser uploads: FileReader.readAsDataURL gives a data URI.
BrowserPayloads == {<<Header, "GOOD">>, <<Header, "BAD">>}

Init ==
    /\ obj \in Apps
    /\ vision = FALSE
    /\ history = <<>>
    /\ calls = <<>>
    /\ ret = Returned("init", None, FALSE, 0)
    /\ s_pc = "idle"
    /\ s_text = <<>>
    /\ s_chunks = <<>>
    /\ s_summaries = <<>>
    /\ s_base = 0
    /\ WebInit

Next ==
    \/ \E assigned \in InitOutcomes : initialize_clients(assigned)
    \/ \E c \in Clients : query(c, "text", NoPayload)
    \/ \E c \in Clients, p \in BrowserPayloads : query(c, "image", p)
    \/ \E c \in Clients : query_return(c)
    \/ \E c \in Clients : submitCatch(c)
    \/ \E j \in 1..MaxPosts : WorkerStart(j)
    \/ \E j \in 1..MaxPosts, ok \in BOOLEAN : WorkerFinish(j, ok)
    \/ \E c \in Clients : check_status(c)
    \/ \E c \in Clients, type \in Types : reset_conversation(c, type)

Spec == Init /\ [][Next]_vars

\* The server with browsers whose submissions are answered and who do not
\* reset: what the progress of the jobs depends on.
NextLive ==
    \/ \E assigned \in InitOutcomes : initialize_clients(assigned)
    \/ \E c \in Clients : query(c, "text", NoPayload)
    \/ \E c \in Clients, p \in BrowserPayloads : query(c, "image", p)
    \/ \E c \in Clients : query_return(c)
    \/ \E j \in 1..MaxPosts : WorkerStart(j)
    \/ \E j \in 1..MaxPosts, ok \in BOOLEAN : WorkerFinish(j, ok)
    \/ \E c \in Clients : check_status(c)

\* The worker threads are scheduled: a thread that was started runs up to
\* its model call, and a model call that is running returns or raises.
Fairness ==
    \A j \in 1..MaxPosts :
        /\ WF_vars(WorkerStart(j))
        /\ WF_vars(\E ok \in BOOLEAN : WorkerFinish(j, ok))

SpecLive == Init /\ [][NextLive]_vars /\ Fairness

(***************************************************************************)
(* Properties of summarize_document.                                       *)
(***************************************************************************)
CeilDiv(n, d) == (n + d - 1) \div d

\* C1 (chunk coverage): whenever summarize_document has split a text T
\* longer than the chunk bound C, the chunks read in index order concatenate
\* to exactly T, every chunk but the last has length C, and the last has
\* length len(T) mod C, or C when C divides len(T).
C1_ChunkCoverage ==
    s_pc \in {"chunks", "combine"} =>
        LET n == Len(s_chunks)
            r == Len(s_text) % ChunkSize
        IN  /\ Len(s_text) > ChunkSize
            /\ n >= 1
            /\ Concat(s_chunks) = s_text
            /\ \A k \in 1..(n - 1) : Len(s_chunks[k]) = ChunkSize
            /\ Len(s_chunks[n]) = (IF r = 0 THEN ChunkSize ELSE r)

\* A text of both characters split into three chunks, the last one short.
C1_Witness ==
    /\ s_pc = "chunks"
    /\ Len(s_chunks) = 3
    /\ Len(s_chunks[3]) < ChunkSize
    /\ \E i, j \in 1..Len(s_text) : s_text[i] # s_text[j]

\* The model calls summarize_document has made since it was entered.
SummarizeCalls == SubSeq(calls, s_base + 1, Len(calls))

SummarizeReturned ==
    /\ obj = "GemmaAssistant"
    /\ s_pc = "idle"
    /\ ret.op = "summarize"
    /\ ret.outcome = "returned"

\* C2 (call count): when summarize_document returns for a non-empty text T,
\* it has made exactly one model call if len(T) <= C (the whole-text call, no
\* combine call), and otherwise exactly N part calls followed by one combine
\* call, N = ceil(len(T)/C) being the number of chunks.
C2_CallCount ==
    (SummarizeReturned /\ s_text # <<>>) =>
        LET made == SummarizeCalls
            n == CeilDiv(Len(s_text), ChunkSize)
        IN  IF Len(s_text) <= ChunkSize
            THEN /\ Len(made) = 1
                 /\ made[1].content.prompt.kind = "whole"
            ELSE /\ Len(s_chunks) = n
                 /\ Len(made) = n + 1
                 /\ \A k \in 1..n : made[k].content.prompt.kind = "part"
                 /\ made[n + 1].content.prompt.kind = "combine"

\* A text of C + 1 characters (the scaled image of 15 over 10) has been
\* summarized with 2 + 1 = 3 calls.
C2_Witness ==
    /\ SummarizeReturned
    /\ Len(s_text) = ChunkSize + 1
    /\ Len(s_chunks) = 2
    /\ Len(SummarizeCalls) = 3

\* A text of exactly C characters has been summarized with one call.
C2_WitnessBoundary ==
    /\ SummarizeReturned
    /\ Len(s_text) = ChunkSize
    /\ Len(SummarizeCalls) = 1

(***************************************************************************)
(* Properties of the sessions on the synchronous path.                     *)
(***************************************************************************)
IsCapabilityError(value) == value \in {CapabilityMsg, ApiVisionMsg}

\* C3 (capability gating): a chat / process_image / send_message call that
\* carries an image on a text-only object returns a capability error and
\* makes no model call.
C3_CapabilityGating ==
    (/\ ret.outcome = "returned"
     /\ ret.op \in {"chat", "process_image", "send_message"}
     /\ ret.image
     /\ ~vision)
        => (IsCapabilityError(ret.value) /\ Len(calls) = ret.base)

\* The same for the two classes that do gate: GemmaAssistant and GemmaAPI.
C3_GatedClasses == (obj \in {"GemmaAssistant", "GemmaAPI"}) => C3_CapabilityGating

C3_GatedWitness ==
    /\ obj \in {"GemmaAssistant", "GemmaAPI"}
    /\ ~vision /\ ret.image /\ ret.outcome = "returned" /\ ret.op = "process_image"
    /\ Len(calls) > 0

PrimingExchange(k) == <<UserTurn(RoleMessage, NoImage), ModelTurn(Reply(k))>>

\* C4 (reset clears history): when reset has returned, no turn sent before it
\* is left in the session: a TopicExpert session (created with priming)
\* holds nothing but the priming exchange replayed by this reset, and a
\* session without priming is empty.
C4_ResetClearsHistory ==
    (ret.op = "reset" /\ ret.outcome = "returned") =>
        IF obj = "TopicExpert"
        THEN history \in {<<>>, PrimingExchange(Len(calls))}
        ELSE history = <<>>

\* A TopicExpert that answered a question was reset and holds the replayed
\* priming exchange only.
C4_Witness ==
    /\ obj = "TopicExpert"
    /\ ret.op = "reset" /\ ret.outcome = "returned"
    /\ \E k \in 1..Len(calls) : calls[k].content \in Msgs /\ Len(calls[k].context) > 0
    /\ history = PrimingExchange(Len(calls))

(***************************************************************************)
(* Properties of the response queue and the worker threads.                *)
(***************************************************************************)
\* The jobs whose entries the polls have answered with, in order, and the
\* jobs whose entries wait in the queue, in order.
DeliveredJobs == [k \in 1..Len(delivered) |-> delivered[k].entry.job]
QueuedJobs == [k \in 1..Len(response_queue) |-> response_queue[k].job]

\* C5: a poll never blocks: on an empty queue it answers 'processing' and
\* changes nothing (the browser goes on polling); otherwise it removes and
\* returns the oldest entry, so the ready polls return the entries in the
\* order the workers put them, whatever the order of submission and
\* whatever conversation the polling browser is in.
C5_PollFifo ==
    /\ [](\A c \in Clients : polling[c] => ENABLED check_status(c))
    /\ [][\A c \in Clients : check_status(c) =>
            IF response_queue = <<>>
            THEN UNCHANGED <<response_queue, delivered, jobs, polling, isProcessing>>
            ELSE /\ delivered' = Append(delivered, Delivery(c, Head(response_queue)))
                 /\ response_queue' = Tail(response_queue)]_vars
    /\ [](DeliveredJobs \o QueuedJobs = published)

C5_Witness ==
    /\ published = <<2, 1>>
    /\ DeliveredJobs = <<2, 1>>
    /\ response_queue = <<>>

\* C6: the entry of a completed job is returned by at most one poll: an
\* entry a poll has returned is no longer in the queue, and no two polls,
\* of the same or of different browsers, return the same entry.
C6_AtMostOnePoll ==
    /\ \A i, k \in 1..Len(delivered) :
           i # k => delivered[i].entry.job # delivered[k].entry.job
    /\ \A i \in 1..Len(delivered), k \in 1..Len(response_queue) :
           delivered[i].entry.job # response_queue[k].job
    /\ Len(delivered) + Len(response_queue) = Len(published)

C6_Witness ==
    /\ Len(delivered) = 2
    /\ delivered[1].to # delivered[2].to
    /\ response_queue = <<>>

\* pending -> processing -> ready or failed.
Rank(job) == IF job.pc = "spawned" THEN 0 ELSE IF job.pc = "calling" THEN 1 ELSE 2
Publications(j) == Cardinality({k \in 1..Len(published) : published[k] = j})

\* C7: the status of a job only moves forward, and a job that is ready or
\* failed never changes again: it is not run again, not published a second
\* time and does not go back to processing.
C7_StatusMonotonic ==
    /\ [][\A j \in 1..Len(jobs) :
            /\ j <= Len(jobs')
            /\ Rank(jobs'[j]) >= Rank(jobs[j])
            /\ jobs[j].pc = "done" =>
                   (jobs'[j] = jobs[j] /\ Publications(j)' = Publications(j))]_vars
    /\ [](\A j \in 1..Len(jobs) :
            /\ Publications(j) <= 1
            /\ jobs[j].outcome \in {"ready", "failed"} <=> jobs[j].pc = "done")

C7_Witness ==
    /\ Len(jobs) = 2
    /\ jobs[1].outcome = "failed" /\ ~jobs[1].called
    /\ jobs[2].outcome = "ready"
    /\ published = <<1, 2>>
    /\ Len(delivered) = 2

\* C8: the handler of a submission returns {status: processing} without
\* waiting for the model call of the job it started: in every state in which
\* the handler has started the thread its return is possible, whatever the
\* worker has done so far, and returning changes nothing of the job.
C8_NonBlockingSubmit ==
    \A c \in Clients :
        submit[c].st = "spawned" =>
            ENABLED (query_return(c) /\ UNCHANGED <<jobs, response_queue>>)

C8_Witness ==
    \E c \in Clients :
        /\ submit[c].st = "none" /\ submit[c].job > 0
        /\ polling[c]
        /\ jobs[submit[c].job].pc = "calling"

\* The entries of job j that were ever put: those polled and those queued.
EntriesOf(j) ==
    {delivered[k].entry : k \in {i \in 1..Len(delivered) : delivered[i].entry.job = j}}
        \cup {response_queue[k] : k \in {i \in 1..Len(response_queue) : response_queue[i].job = j}}
RecordsFailure(entry) ==
    entry.error # None \/ entry.response = ClientErrorMsg

\* C9: a worker catches every failure and records it in the entry it puts:
\* every finished job, failed or not, has put exactly one entry, the entry
\* of a failed job records the failure, and whatever failed before, the
\* worker of every unfinished job can take its next step.
C9_WorkerCatches ==
    \A j \in 1..Len(jobs) :
        /\ jobs[j].pc = "done" => Publications(j) = 1
        /\ jobs[j].outcome = "failed" =>
               \A entry \in EntriesOf(j) :
                   RecordsFailure(entry) /\ entry.conversation_id = jobs[j].conversation_id
        /\ jobs[j].pc = "spawned" => ENABLED WorkerStart(j)
        /\ jobs[j].pc = "calling" =>
               (ENABLED WorkerFinish(j, TRUE) /\ ENABLED WorkerFinish(j, FALSE))

C9_Witness ==
    /\ Len(jobs) = 2
    /\ jobs[1].outcome = "failed" /\ jobs[1].called
    /\ jobs[2].outcome = "ready"
    /\ published = <<1, 2>>
    /\ \E k \in 1..Len(delivered) :
           delivered[k].entry.job = 2 /\ delivered[k].entry.response = Reply(2)

\* C10: the queue is not indexed by conversation: a browser that polls
\* while the oldest entry belongs to another conversation is answered with
\* that entry; with a job of A submitted before a job of B and B's worker
\* finishing first, the poll of A returns B's result.
C10_PollMismatch ==
    \A c \in Clients :
        (/\ polling[c]
         /\ response_queue # <<>>
         /\ Head(response_queue).conversation_id # cid[c])
            => ENABLED (/\ check_status(c)
                        /\ delivered' = Append(delivered, Delivery(c, Head(response_queue))))

C10_Witness ==
    /\ Len(jobs) = 2
    /\ jobs[1].conversation_id = cid["A"]
    /\ jobs[2].conversation_id = cid["B"]
    /\ Len(published) >= 1 /\ published[1] = 2
    /\ Len(delivered) >= 1
    /\ delivered[1].to = "A"
    /\ delivered[1].expected = cid["A"]
    /\ delivered[1].entry.conversation_id = cid["B"]
    /\ delivered[1].entry.response = Reply(2)

(***************************************************************************)
(* Properties of the conversations: matching, serialisation, isolation.    *)
(***************************************************************************)
\* C11: a polling browser accepts a ready result only when the result's
\* conversation_id is the conversation id the browser holds; every result a
\* browser took as the reply to its request is of its own conversation.
C11_MatchingDiscipline ==
    \A k \in 1..Len(delivered) :
        delivered[k].entry.conversation_id = delivered[k].expected

\* The exchange of job j in a history: its user turn immediately followed
\* by its reply.
HoldsExchange(h, j) ==
    \E k \in 1..(Len(h) - 1) :
        /\ h[k].role = "user" /\ h[k].content = Prompt(j)
        /\ h[k + 1] = ModelTurn(Reply(j))

\* C12: within one session the sends are serialised: no two workers are
\* inside a send on the same session at the same time, and (as long as no
\* reset was issued) the session holds the exchange of every job that
\* completed on it, the user turn immediately followed by the reply.
C12_SendsSerialized ==
    /\ \A i, j \in 1..Len(jobs) :
           (i # j /\ jobs[i].pc = "calling" /\ jobs[j].pc = "calling" /\ jobs[i].sid # 0)
               => jobs[i].sid # jobs[j].sid
    /\ ResetsIssued = 0 =>
           \A j \in 1..Len(jobs) :
               (jobs[j].outcome = "ready" /\ jobs[j].sid # 0)
                   => HoldsExchange(sess[jobs[j].sid], j)

\* The conversation a turn of a session belongs to: that of the job whose
\* prompt or reply the turn holds.
ConversationOf(turn) ==
    jobs[CHOOSE j \in 1..Len(jobs) : turn.content \in {Prompt(j), Reply(j)}].conversation_id

\* C13: histories are scoped per conversation id: the context the model is
\* called with for a job holds turns of that job's conversation only, and
\* no session ever holds turns of two conversations.
C13_NoCrossSession ==
    /\ \A j \in 1..Len(jobs) :
           jobs[j].pc = "calling" =>
               \A k \in 1..Len(jobs[j].ctx) :
                   ConversationOf(jobs[j].ctx[k]) = jobs[j].conversation_id
    /\ \A s \in 1..Len(sess) :
           \A k, m \in 1..Len(sess[s]) :
               ConversationOf(sess[s][k]) = ConversationOf(sess[s][m])

(***************************************************************************)
(* Properties of the synchronous sends.                                    *)
(***************************************************************************)
\* The last operation was a send that made one model call and handed back
\* that call's reply.
SendSucceeded ==
    /\ ret.op \in {"send_message", "chat", "ask"}
    /\ ret.outcome = "returned"
    /\ Len(calls) = ret.base + 1
    /\ ret.value = Reply(Len(calls))

\* C14: every successful send, with or without an image, calls the model
\* with the history accumulated so far as context, appends the user message
\* and then the reply to the history, and returns that reply.
C14_SendAppends ==
    SendSucceeded =>
        LET call == calls[Len(calls)]
        IN  /\ Len(history) = Len(call.context) + 2
            /\ history = call.context
                           \o <<UserTurn(call.content, call.image), ModelTurn(ret.value)>>

\* C15: when a TopicExpert is created with priming text, that text is sent
\* to the model as one setup message before the constructor returns and
\* before any user turn, and the reply is not handed to the caller.
C15_PrimingOnCreate ==
    (obj = "TopicExpert" /\ s_pc # "constructing") =>
        /\ Len(calls) >= 1
        /\ calls[1].content = SystemPrompt
        /\ calls[1].context = <<>>
        /\ ret.op = "create" => (ret.value = None /\ Len(calls) = 1)

(***************************************************************************)
(* Properties of the inputs of summarize_document and of image payloads.   *)
(***************************************************************************)
\* text.strip() == "": the text is empty after trimming.
Blank(text) == \A k \in 1..Len(text) : text[k] = " "

\* C16: summarize_document fails with the empty-input error and makes no
\* model call whenever the extracted text is empty after trimming, so also
\* when it consists of blanks only.
C16_EmptyInput ==
    (ret.op = "summarize" /\ Blank(s_text)) =>
        /\ Len(calls) = s_base
        /\ ret.outcome # "raised"
        /\ ret.outcome = "returned" => ret.value = NoTextMsg

\* The base64 texts a payload may carry.
Bodies == {"GOOD", "BAD", "NOTIMG"}

\* C17: a base64 payload is accepted with and without the data-URI header:
\* for every base64 text, a step taken with the prefixed payload is exactly
\* a step taken with the unprefixed one (same decoded image handed to the
\* model, same value returned), in GemmaClient.send_message and in
\* GemmaAPI.process_image_base64.
C17_PrefixOptional ==
    [][\A body \in Bodies, m \in Msgs, ok \in BOOLEAN :
          /\ ClientSend(m, <<Header, body>>, ok) <=> ClientSend(m, <<body>>, ok)
          /\ ApiProcessImageBase64(<<Header, body>>, m, ok)
                 <=> ApiProcessImageBase64(<<body>>, m, ok)]_vars

\* The payload of an image job does not decode to an image: its base64
\* text is undecodable or holds no readable image.
Malformed(job) ==
    /\ job.kind = "image"
    /\ OpenBase64(job.payload[Len(job.payload)]) = "raise"

\* C18: a malformed image payload fails for its own request only: the
\* worker of that job puts one entry recording the failure under the job's
\* conversation id, the model is not invoked for it, and the step changes
\* no other job, no session and no client.
C18_DecodeError ==
    [][\A j \in 1..Len(jobs) :
          (WorkerStart(j) /\ Malformed(jobs[j])) =>
              /\ jobs'[j].pc = "done"
              /\ jobs'[j].outcome = "failed"
              /\ ~jobs'[j].called
              /\ Len(response_queue') = Len(response_queue) + 1
              /\ LET entry == response_queue'[Len(response_queue')]
                 IN  /\ entry.job = j
                     /\ RecordsFailure(entry)
                     /\ entry.conversation_id = jobs[j].conversation_id
              /\ \A i \in 1..Len(jobs) : i # j => jobs'[i] = jobs[i]
              /\ UNCHANGED <<sess, cur>>]_vars

C18_Witness ==
    /\ obj = "gemma_web_app"
    /\ Len(jobs) = 2
    /\ jobs[1].kind = "image" /\ jobs[1].outcome = "failed" /\ ~jobs[1].called
    /\ \E entry \in EntriesOf(1) : entry.response = ClientErrorMsg
    /\ jobs[2].outcome = "ready"
    /\ published = <<1, 2>>
    /\ \E k \in 1..Len(delivered) : delivered[k].entry.job = 2

\* C19: a failure of the text extraction (unsupported extension, or an
\* exception of an extractor) never raises out of summarize_document and is
\* handed to the caller as the failure description: no model call is made
\* on it and the value returned is the description itself.
C19_ExtractionFailure ==
    (ret.op = "summarize" /\ s_text \in {UnsupportedMsg, ExtractErrorMsg}) =>
        /\ Len(calls) = s_base
        /\ ret.outcome # "raised"
        /\ ret.outcome = "returned" => ret.value = s_text

(***************************************************************************)
(* Progress of the jobs.                                                   *)
(***************************************************************************)
\* C20: every submitted job runs to completion or failure: again and again
\* every job submitted so far has put exactly one entry into the queue (a
\* put is never undone, so each job eventually has its entry for good), and
\* no job ever has put more than one.
C20_JobsComplete ==
    /\ []<>(\A j \in 1..Len(jobs) : Publications(j) = 1)
    /\ [](\A j \in 1..Len(jobs) : Publications(j) <= 1)

C20_Witness ==
    /\ Len(jobs) = 2
    /\ jobs[1].called /\ jobs[1].outcome = "ready"
    /\ jobs[2].called /\ jobs[2].outcome = "failed"
    /\ Publications(1) = 1 /\ Publications(2) = 1
    /\ response_queue # <<>>

(***************************************************************************)
(* Properties of the conversation reset of the web applications.           *)
(***************************************************************************)
\* C21: a reset request with type "text" or "image" answers
\* {status: "reset"} in every reachable server state, also before the
\* initialisation thread has assigned the clients and while jobs are in
\* flight; no reset request ever fails.
C21_ResetAlwaysAnswers == lastReset \in {NoReset, "reset"}

(***************************************************************************)
(* Properties of the calls summarize_document makes.                       *)
(***************************************************************************)
\* The parts in index order with a blank line between two neighbours.
Separated(parts) ==
    Concat([k \in 1..(2 * Len(parts) - 1) |->
               IF k % 2 = 1 THEN parts[(k + 1) \div 2] ELSE <<"\n", "\n">>])

\* C22: in a summarize_document over N > 1 chunks the chunk calls are made
\* one at a time in index order, the i-th call carries the prompt "part i
\* of N" and the i-th chunk and is made when exactly i - 1 summaries have
\* come back, the combine call is made only when all N summaries are there,
\* its text is the N summaries in index order separated by blank lines, and
\* what summarize_document returns is the reply of the combine call.
C22_ChunkOrder ==
    /\ [](((obj = "GemmaAssistant" /\ ret.op = "summarize" /\ Len(s_chunks) > 1)) =>
            LET n == Len(s_chunks)
                made == SummarizeCalls
            IN  /\ Len(made) <= n + 1
                /\ \A k \in 1..Len(made) :
                       made[k].content =
                           IF k <= n
                           THEN FullPrompt(PartPrompt(k, n), s_chunks[k])
                           ELSE FullPrompt(CombinePrompt,
                                           Separated([i \in 1..n |-> Reply(s_base + i)]))
                /\ \A k \in 1..Len(s_summaries) : s_summaries[k] = Reply(s_base + k)
                /\ ret.outcome = "returned" =>
                       (Len(made) = n + 1 /\ ret.value = Reply(s_base + n + 1)))
    /\ [][(s_pc \in {"chunks", "combine"} /\ calls' # calls) =>
              /\ Len(calls') = Len(calls) + 1
              /\ SubSeq(calls', 1, Len(calls)) = calls
              /\ Len(s_summaries) = Len(calls) - s_base
              /\ s_pc = "combine" <=> Len(s_summaries) = Len(s_chunks)]_vars

\* A text of three chunks has been summarized: three part calls, then the
\* combine call, whose reply was returned.
C22_Witness ==
    /\ SummarizeReturned
    /\ Len(s_chunks) = 3
    /\ Len(SummarizeCalls) = 4
    /\ calls[Len(calls)].content.prompt = CombinePrompt
    /\ ret.value = Reply(Len(calls))

(***************************************************************************)
(* Properties of the history of a session on the synchronous path.         *)
(***************************************************************************)
IsPrefix(a, b) == Len(a) <= Len(b) /\ SubSeq(b, 1, Len(a)) = a

\* A step that is a whole-session reset.
ResetStep ==
    \/ AssistantReset
    \/ ClientReset
    \/ ApiResetChat
    \/ \E ok \in BOOLEAN : ExpertReset(ok)

\* C23: the history of a session is append-only and ordered: every step
\* that is not a whole-session reset leaves the history it found as a prefix
\* of the history it leaves, adding nothing or one user turn followed by the
\* reply to it; a reset clears the whole history at once (a TopicExpert
\* replays its setup exchange into the fresh session).
C23_AppendOnly ==
    [][IF ResetStep
       THEN history' \in {<<>>, PrimingExchange(Len(calls'))}
       ELSE /\ IsPrefix(history, history')
            /\ Len(history') \in {Len(history), Len(history) + 2}
            /\ Len(history') = Len(history) + 2 =>
                   /\ history'[Len(history) + 1].role = "user"
                   /\ history'[Len(history) + 2] = ModelTurn(Reply(Len(calls')))]_vars

\* A GemmaAPI session that was emptied and has since taken two exchanges,
\* the second after the first.
C23_Witness ==
    /\ obj = "GemmaAPI"
    /\ Len(calls) = 3
    /\ calls[2].context = <<>>
    /\ ret.op = "chat"
    /\ history = <<UserTurn(calls[2].content, NoImage), ModelTurn(Reply(2)),
                   UserTurn(calls[3].content, NoImage), ModelTurn(Reply(3))>>

(***************************************************************************)
(* Properties of the order in which the worker threads run.                *)
(***************************************************************************)
\* C24: the jobs are started in the order of their submission: whenever the
\* worker of a job has made its model call, the worker of every job
\* submitted before it has begun as well (it has reached its own model call
\* or has put its entry).
C24_FifoStart ==
    \A i, j \in 1..Len(jobs) :
        (i < j /\ jobs[j].called) => jobs[i].pc # "spawned"

(***************************************************************************)
(* Properties of the calls of summarize_document and the chat session.     *)
(***************************************************************************)
\* C25: the calls of summarize_document are independent single-shot calls:
\* every call it makes (a part, the combine, or the whole text) is made with
\* no earlier turn as context, and no step of summarize_document changes the
\* history of the conversation session.
C25_SummarizeIndependent ==
    [][(obj = "GemmaAssistant" /\ s_pc \in {"chunks", "combine", "whole"}) =>
          /\ history' = history
          /\ calls' # calls => calls'[Len(calls')].context = <<>>]_vars

(***************************************************************************)
(* Properties of the entries of the response queue.                        *)
(***************************************************************************)
\* Every entry that was ever put: those still queued and those a poll has
\* answered with.
AllEntries ==
    {response_queue[k] : k \in 1..Len(response_queue)}
        \cup {delivered[k].entry : k \in 1..Len(delivered)}

\* C26: every entry in the queue and every entry a ready poll answered with
\* was put by the worker of a submitted job that has finished, carries the
\* conversation id that job was submitted with and that job's own outcome
\* (its model reply and no error when it succeeded, a record of its failure
\* and no model reply when it failed); never were more entries put than jobs
\* submitted.
C26_ResultIntegrity ==
    /\ \A entry \in AllEntries :
           /\ entry.job \in 1..Len(jobs)
           /\ LET job == jobs[entry.job]
              IN  /\ job.pc = "done"
                  /\ entry.conversation_id = job.conversation_id
                  /\ IF job.outcome = "ready"
                     THEN entry.response = Reply(entry.job) /\ entry.error = None
                     ELSE /\ RecordsFailure(entry)
                          /\ \A k \in 1..Len(jobs) : entry.response # Reply(k)
    /\ Len(published) <= Len(jobs)
    /\ Cardinality(AllEntries) = Len(published)
    /\ \A k \in 1..Len(published) : published[k] \in 1..Len(jobs)

\* Two jobs of two conversations, one succeeded and one failed; the poll of
\* one browser was answered with the entry of the other's job, the second
\* entry is still queued.
C26_Witness ==
    /\ Len(jobs) = 2
    /\ jobs[1].conversation_id # jobs[2].conversation_id
    /\ {jobs[1].outcome, jobs[2].outcome} = {"ready", "failed"}
    /\ Len(delivered) = 1 /\ Len(response_queue) = 1
    /\ delivered[1].entry.conversation_id # delivered[1].expected
    /\ delivered[1].entry.response = Reply(delivered[1].entry.job)

(***************************************************************************)
(* Properties of a reset beside running jobs.                              *)
(***************************************************************************)
\* C27: a reset cancels no job and purges no entry: the reset step leaves
\* every job, the queue and what was delivered as they are, and after a
\* reset the worker of every unfinished job still takes its next step (a
\* running call still puts its entry) and a poll is still answered with the
\* oldest queued entry.
C27_ResetKeepsJobs ==
    /\ [][\A c \in Clients, type \in Types :
              reset_conversation(c, type) =>
                  UNCHANGED <<jobs, response_queue, published, delivered,
                              isProcessing, polling, submit>>]_vars
    /\ [](ResetsIssued > 0 =>
            /\ \A j \in 1..Len(jobs) :
                   /\ jobs[j].pc = "spawned" => ENABLED WorkerStart(j)
                   /\ jobs[j].pc = "calling" =>
                          ENABLED (WorkerFinish(j, TRUE) /\ published' = Append(published, j))
            /\ \A c \in Clients :
                   (polling[c] /\ response_queue # <<>>) =>
                       ENABLED (/\ check_status(c)
                                /\ delivered' = Append(delivered,
                                                       Delivery(c, Head(response_queue)))))

\* A browser submitted a job, reset its conversation, and its poll was then
\* answered with the result of the job submitted before the reset.
C27_Witness ==
    /\ ResetsIssued = 1
    /\ Len(jobs) = 1
    /\ jobs[1].outcome = "ready"
    /\ Len(delivered) = 1
    /\ delivered[1].to = jobs[1].conversation_id.client
    /\ delivered[1].expected.n = 1
    /\ delivered[1].entry.conversation_id.n = 0
    /\ delivered[1].entry.response = Reply(1)

(***************************************************************************)
(* Properties of jobs that meet a client that is not initialized.          *)
(***************************************************************************)
\* C28, as stated: in gemma_web_app, a job submitted while its client is
\* not initialized (also: while the initialisation thread has not finished)
\* never makes a model call.  A job that waits to run while its client is
\* None was submitted while the client was None, since a client once
\* assigned is never set back to None.
C28_SubmittedUninitialized ==
    \A j \in 1..MaxPosts :
        []((/\ obj = "gemma_web_app"
            /\ j <= Len(jobs)
            /\ jobs[j].pc = "spawned"
            /\ cur[jobs[j].kind] = 0)
               => [](j > Len(jobs) \/ ~jobs[j].called))

\* C28, amended: in gemma_web_app, a job whose worker runs while its client
\* is not initialized makes no model call and puts exactly one entry, whose
\* error is "Client not initialized" and whose response is the error text,
\* under the conversation id of the job; the handler of its submission
\* answers {status: processing} all the same.
C28_NotInitializedJob ==
    /\ [][\A j \in 1..Len(jobs) :
              (WorkerStart(j) /\ obj = "gemma_web_app" /\ cur[jobs[j].kind] = 0) =>
                  /\ jobs'[j].pc = "done"
                  /\ ~jobs'[j].called
                  /\ Publications(j) = 0
                  /\ published' = Append(published, j)
                  /\ response_queue' =
                         Append(response_queue,
                                Entry(jobs[j].conversation_id, NotInitializedMsg,
                                      NotInitializedError, j))]_vars
    /\ [](\A j \in 1..Len(jobs) :
            (obj = "gemma_web_app" /\ jobs[j].pc = "done" /\ cur[jobs[j].kind] = 0) =>
                /\ ~jobs[j].called
                /\ Publications(j) = 1
                /\ \A entry \in EntriesOf(j) :
                       entry.error = NotInitializedError /\ entry.response = NotInitializedMsg)
    /\ [](\A c \in Clients :
            (submit[c].st = "spawned" /\ cur[jobs[submit[c].job].kind] = 0)
                => ENABLED query_return(c))

\* A text job was submitted and run before the initialisation thread had
\* finished; the browser's poll was answered with its "Client not
\* initialized" entry.
C28_Witness ==
    /\ obj = "gemma_web_app"
    /\ init_pc = "start"
    /\ Len(jobs) >= 1
    /\ jobs[1].kind = "text" /\ jobs[1].pc = "done" /\ ~jobs[1].called
    /\ Len(delivered) = 1
    /\ delivered[1].entry.job = 1
    /\ delivered[1].entry.error = NotInitializedError
    /\ delivered[1].entry.response = NotInitializedMsg
    /\ ~polling[delivered[1].to]

(***************************************************************************)
(* Properties of a TopicExpert whose setup call fails.                     *)
(***************************************************************************)
\* C29: creating and resetting a TopicExpert complete also when the setup
\* call fails: the step returns normally (nothing is raised, nothing is
\* handed back), the expert is ready for the next operation and holds a
\* fresh, empty chat history; an ask on such a session is sent with no
\* setup turn as context, and no operation of a TopicExpert ever raises.
C29_PrimingFailureSwallowed ==
    /\ [][(ExpertInit(FALSE) \/ ExpertReset(FALSE)) =>
              /\ ret'.outcome = "returned"
              /\ ret'.value = None
              /\ s_pc' = "idle"
              /\ history' = <<>>
              /\ Len(calls') = Len(calls) + 1]_vars
    /\ [][\A m \in Msgs, ok \in BOOLEAN :
              (ExpertAsk(m, ok) /\ history = <<>>) =>
                  /\ calls'[Len(calls')].content = m
                  /\ calls'[Len(calls')].context = <<>>]_vars
    /\ [](obj = "TopicExpert" => (s_pc # "raised" /\ ret.outcome = "returned"))

\* The setup call of the constructor failed; the question asked next was
\* sent with an empty context and answered.
C29_Witness ==
    /\ obj = "TopicExpert"
    /\ Len(calls) = 2
    /\ calls[1].content = RoleMessage
    /\ calls[2].content \in Msgs
    /\ calls[2].context = <<>>
    /\ ret.op = "ask" /\ ret.value = Reply(2)
    /\ history = <<UserTurn(calls[2].content, NoImage), ModelTurn(Reply(2))>>

(***************************************************************************)
(* Properties of the browsers' isProcessing flag.                          *)
(***************************************************************************)
\* The jobs browser c has submitted whose worker has not finished.
OutstandingJobs(c) ==
    {j \in 1..Len(jobs) : jobs[j].conversation_id.client = c /\ jobs[j].pc # "done"}

\* C30: a browser has at most one outstanding job at any time: it never has
\* two unfinished jobs, and whenever isProcessing is false, so that
\* sendTextMessage / sendImageMessage would submit, it has none.
C30_OneOutstanding ==
    \A c \in Clients :
        /\ Cardinality(OutstandingJobs(c)) <= 1
        /\ ~isProcessing[c] => OutstandingJobs(c) = {}

====
